---- MODULE Spec2Model ----
(***************************************************************************)
(* Model of lib/singlepass-backend/src/protect_unix.rs: protected calls    *)
(* (setjmp/longjmp recovery), throw, do_unwind, trigger_trap, the signal   *)
(* handler with its breakpoint dispatch and its diagnostic report, the     *)
(* formatting of the report, and the one-time installation of the signal   *)
(* handlers.                                                               *)
(*                                                                         *)
(* Every thread has its own call stack (the live call_protected            *)
(* activations) and its own thread-locals.  A jmp_buf filled by setjmp is  *)
(* identified by the activation that filled it; 0 is the all-zero buffer.  *)
(***************************************************************************)
EXTENDS Integers, Sequences, FiniteSets, TLC

----------------------------------------------------------------------------
(* Bounds of the model *)

MaxDepth == 3
MaxCalls == 3
MaxBkpt == 2

Threads == {1, 2}

(* The thread of the single-threaded specification *)
Solo == {1}

(* What the body f of activation id returns when it returns: a value of    *)
(* its own.  What throw may carry.                                         *)
BodyValue(id) == 10 + id
Payloads == {101, 102}

(* Instruction pointers of delivered signals *)
Addrs == {1, 2}

----------------------------------------------------------------------------
(* Signals *)

Signals == {"SIGFPE", "SIGILL", "SIGSEGV", "SIGBUS", "SIGTRAP"}

(* The order of the sigaction calls of install_sighandler *)
SigOrder == <<"SIGFPE", "SIGILL", "SIGSEGV", "SIGBUS", "SIGTRAP">>

(* c_int value of a signal (macOS/x86_64, the platform of get_fault_info) *)
SigNum(s) ==
    CASE s = "SIGFPE" -> 8
      [] s = "SIGILL" -> 4
      [] s = "SIGSEGV" -> 11
      [] s = "SIGBUS" -> 10
      [] s = "SIGTRAP" -> 5

(* The value throw passes to longjmp: 0xffff *)
ThrowCode == 65535

----------------------------------------------------------------------------
(* FaultInfo and its decoder *)

NumRegisters == 24

(* X64Register::GPR(g).to_index(): the GPR's position in the enumeration *)
GPRIndex ==
    [RAX |-> 0, RCX |-> 1, RDX |-> 2, RBX |-> 3, RSP |-> 4, RBP |-> 5,
     RSI |-> 6, RDI |-> 7, R8 |-> 8, R9 |-> 9, R10 |-> 10, R11 |-> 11,
     R12 |-> 12, R13 |-> 13, R14 |-> 14, R15 |-> 15]

GPRNames == DOMAIN GPRIndex

None == [some |-> FALSE, v |-> 0]
Some(x) == [some |-> TRUE, v |-> x]

(* The raw OS context of a signal raised at instruction pointer a: the     *)
(* saved register file ss, and si_addr of the siginfo.                     *)
OsContext(a) ==
    [si_addr |-> 10 * a,
     rip |-> a,
     ss |-> [g \in GPRNames |-> 100 * a + GPRIndex[g]]]

(* Faulty variant of the decoder: registers not read are given as 0 *)
get_fault_info_zero_default(ctx) ==
    [faulting_addr |-> ctx.si_addr,
     ip |-> ctx.rip,
     known_registers |->
        [i \in 0..(NumRegisters - 1) |->
            IF \E g \in GPRNames : GPRIndex[g] = i
              THEN Some(ctx.ss[CHOOSE g \in GPRNames : GPRIndex[g] = i])
              ELSE Some(0)]]

(* get_fault_info: known_registers starts as [None; 24]; sixteen entries   *)
(* are then set from ss, in the order of the source.                       *)
get_fault_info(ctx) ==
    [faulting_addr |-> ctx.si_addr,
     ip |-> ctx.rip,
     known_registers |->
        [[i \in 0..(NumRegisters - 1) |-> None] EXCEPT
            ![GPRIndex.R15] = Some(ctx.ss.R15),
            ![GPRIndex.R14] = Some(ctx.ss.R14),
            ![GPRIndex.R13] = Some(ctx.ss.R13),
            ![GPRIndex.R12] = Some(ctx.ss.R12),
            ![GPRIndex.R11] = Some(ctx.ss.R11),
            ![GPRIndex.R10] = Some(ctx.ss.R10),
            ![GPRIndex.R9] = Some(ctx.ss.R9),
            ![GPRIndex.R8] = Some(ctx.ss.R8),
            ![GPRIndex.RSI] = Some(ctx.ss.RSI),
            ![GPRIndex.RDI] = Some(ctx.ss.RDI),
            ![GPRIndex.RDX] = Some(ctx.ss.RDX),
            ![GPRIndex.RCX] = Some(ctx.ss.RCX),
            ![GPRIndex.RBX] = Some(ctx.ss.RBX),
            ![GPRIndex.RAX] = Some(ctx.ss.RAX),
            ![GPRIndex.RBP] = Some(ctx.ss.RBP),
            ![GPRIndex.RSP] = Some(ctx.ss.RSP)]]

----------------------------------------------------------------------------
(* Breakpoint tables: address -> callback.  A callback either returns or   *)
(* calls the throw it was handed, with a payload.                          *)

CbReturn == [kind |-> "return", payload |-> 0]
CbThrow(p) == [kind |-> "throw", payload |-> p]

Tables == { (1 :> CbReturn), (2 :> CbThrow(103)) }

----------------------------------------------------------------------------
(* The diagnostic report *)

(* Longest sequence given to format_optional_u64_sequence on its own *)
MaxLen == 3

(* Option<u64> entries of a frame's locals and stack *)
OptU64 == {None, Some(0), Some(7), Some(2147483647)}

(* s.bold().cyan() etc. of the colored crate, as Display writes it: with    *)
(* colouring on, the text between the escape sequence of the style (here    *)
(* with <ESC> for the byte 0x1b) and the reset sequence; plain otherwise.   *)
Styled(codes, s, colorize) ==
    IF colorize THEN "<ESC>[" \o codes \o "m" \o s \o "<ESC>[0m" ELSE s

BoldCyan == "1;36"
BoldRed == "1;31"
BoldYellow == "1;33"
Yellow == "33"
Bold == "1"

(* The loop of join_strings over x from position k on, with the flag first *)
(* and the string ret built so far.                                        *)
RECURSIVE join_loop(_, _, _, _, _)
join_loop(x, sep, k, first, ret) ==
    IF k > Len(x)
      THEN ret
      ELSE join_loop(x, sep, k + 1, FALSE,
                     (IF first THEN ret ELSE ret \o sep) \o x[k])

(* Faulty variant of join_strings: the separator follows every entry *)
join_strings_trailing(x, sep) ==
    join_loop([k \in DOMAIN x |-> x[k] \o sep], "", 1, TRUE, "")

join_strings(x, sep) == join_loop(x, sep, 1, TRUE, "")

(* format_optional_u64_sequence(x), x[1] being the entry of index 0 *)
format_optional_u64_sequence(x, colorize) ==
    IF Len(x) = 0
      THEN "(empty)"
      ELSE join_strings(
             [k \in DOMAIN x |->
                "[" \o ToString(k - 1) \o "] = "
                    \o Styled(BoldCyan,
                              IF x[k].some THEN ToString(x[k].v) ELSE "?",
                              colorize)],
             ", ")

(* A frame of the stack walk *)
WasmFrame(id, locals, wstack) ==
    [local_function_id |-> id, locals |-> locals, stack |-> wstack]

FrameA == WasmFrame(3, <<Some(7), None>>, <<>>)
FrameB == WasmFrame(1, <<None>>, <<Some(0), Some(7)>>)

(* What read_stack can return: no frame (the fault is in no known module), *)
(* or the frames from the innermost one outwards.                          *)
FrameSeqs == { <<>>, <<FrameA>>, <<FrameA, FrameB>>, <<FrameB, FrameA>> }

ReportHeader(colorize) ==
    Styled(BoldRed, "Wasmer encountered an error while running your WebAssembly program.",
           colorize)
CannotReadStack(colorize) ==
    Styled(Yellow, "Unknown fault address, cannot read stack.", colorize)
BacktraceTitle(colorize) == Styled(Bold, "Backtrace:", colorize)
FrameTitle(i, id, colorize) ==
    Styled(Bold, "* Frame " \o ToString(i) \o " @ Local function " \o ToString(id),
           colorize)

(* The lines the eprintln! calls of one frame write; i counts from 0 *)
FrameLines(i, f, colorize) ==
    << FrameTitle(i, f.local_function_id, colorize),
       "  " \o Styled(BoldYellow, "Locals:", colorize) \o " "
            \o format_optional_u64_sequence(f.locals, colorize),
       "  " \o Styled(BoldYellow, "Stack:", colorize) \o " "
            \o format_optional_u64_sequence(f.stack, colorize),
       "" >>

RECURSIVE BacktraceLines(_, _, _)
BacktraceLines(frames, k, colorize) ==
    IF k > Len(frames)
      THEN <<>>
      ELSE FrameLines(k - 1, frames[k], colorize)
             \o BacktraceLines(frames, k + 1, colorize)

(* Faulty variant of the report: the backtrace section is written even     *)
(* when no frame was read.                                                  *)
Report_always_backtrace(frames, colorize) ==
    <<"", ReportHeader(colorize), "">>
      \o <<BacktraceTitle(colorize), "">>
      \o BacktraceLines(frames, 1, colorize)

(* The lines signal_trap_handler writes to stderr for the frames read *)
Report(frames, colorize) ==
    <<"", ReportHeader(colorize), "">>
      \o (IF Len(frames) = 0
            THEN <<CannotReadStack(colorize)>>
            ELSE <<BacktraceTitle(colorize), "">>
                   \o BacktraceLines(frames, 1, colorize))

----------------------------------------------------------------------------
VARIABLES
    proc,             \* "running", or how the process ended
    SIGHANDLER_INIT,  \* the Once latch: [state, owner]
    handlers,         \* signal -> the disposition, and how often sigaction set it
    installs,         \* number of executions of install_sighandler
    nextId,           \* next call_protected activation
    stack,            \* thread -> its live call_protected activations
    SETJMP_BUFFER,    \* thread -> contents of the jmp_buf
    TRAP_EARLY_DATA,  \* thread -> Option<payload>
    CAUGHT_FAULTS,    \* thread -> Option<FaultInfo>
    BKPT_MAP,         \* thread -> stack of breakpoint tables
    ev                \* observation: the operation of the last step

vars == <<proc, SIGHANDLER_INIT, handlers, installs, nextId, stack,
          SETJMP_BUFFER, TRAP_EARLY_DATA, CAUGHT_FAULTS, BKPT_MAP, ev>>

Top(t) == stack[t][Len(stack[t])]

(* The thread runs code that may call into this module: the top level, or  *)
(* the body of its innermost call_protected.                               *)
InBody(t) == stack[t] # <<>> /\ Top(t).pc = "body"
AtTop(t) == stack[t] = <<>>
Runs(t) == proc = "running" /\ (AtTop(t) \/ InBody(t))

(* The activations whose setjmp has run *)
Armed(t) == { i \in 1..Len(stack[t]) : stack[t][i].pc \in {"body", "resumed"} }

(* Identity of the innermost armed activation, 0 if there is none *)
Innermost(t) ==
    IF Armed(t) = {} THEN 0
    ELSE stack[t][CHOOSE i \in Armed(t) : \A j \in Armed(t) : j <= i].id

(* The thread-locals of t as one value *)
Locals(t) ==
    [buf |-> SETJMP_BUFFER[t], early |-> TRAP_EARLY_DATA[t],
     caught |-> CAUGHT_FAULTS[t], stack |-> stack[t], bkpt |-> BKPT_MAP[t]]

(* Observation of a step: the operation op of thread t, the activation it  *)
(* concerns (for a raise: the innermost armed one when it was raised), its *)
(* inputs, the result kind it returned, the thread's state before it, and   *)
(* the lines it wrote to stderr (none, unless the action says otherwise).   *)
Event(op, t, scope, sig, ip, val, res) ==
    [op |-> op, t |-> t, scope |-> scope, sig |-> sig, ip |-> ip, val |-> val,
     res |-> res, pre |-> Locals(t), out |-> <<>>]

NoCause == [kind |-> "none", payload |-> 0, sig |-> "-", ip |-> 0, scope |-> 0]
NoInner == [res |-> "-", by |-> "none"]
Cause(kind, t, p, sig, ip) ==
    [kind |-> kind, payload |-> p, sig |-> sig, ip |-> ip, scope |-> Innermost(t)]

Init ==
    /\ proc = "running"
    /\ SIGHANDLER_INIT = [state |-> "incomplete", owner |-> 0]
    /\ handlers = [s \in Signals |-> [fn |-> "SIG_DFL", n |-> 0]]
    /\ installs = 0
    /\ nextId = 1
    /\ stack = [t \in Threads |-> <<>>]
    /\ SETJMP_BUFFER = [t \in Threads |-> 0]
    /\ TRAP_EARLY_DATA = [t \in Threads |-> None]
    /\ CAUGHT_FAULTS = [t \in Threads |-> None]
    /\ BKPT_MAP = [t \in Threads |-> <<>>]
    /\ ev = [op |-> "init", t |-> 0, scope |-> 0, sig |-> "-", ip |-> 0,
             val |-> 0, res |-> "-", pre |-> <<>>, out |-> <<>>]

----------------------------------------------------------------------------
(* call_protected, up to the body *)

(* An activation of call_protected: its identity, the local prev_jmp_buf,  *)
(* where it stands, what setjmp returned, the value its body returns.      *)
(* Observations kept with it: the recovery state found on entry, what      *)
(* raised the jump that resumed it, and the result kind the last           *)
(* call_protected called from its body returned.                           *)
Frame(id, prev, v, early) ==
    [id |-> id, prev |-> prev, pc |-> "once", signum |-> 0, val |-> v, n |-> 0,
     entry |-> [buf |-> prev, early |-> early], cause |-> NoCause, inner |-> NoInner]

SetTop(t, f) == [stack EXCEPT ![t] = [@ EXCEPT ![Len(@)] = f]]

(* The activation on top returns res to its caller *)
Pop(t, res) ==
    [stack EXCEPT ![t] =
        [j \in 1..(Len(@) - 1) |->
            IF j = Len(@) - 1
              THEN [@[j] EXCEPT !.inner = [res |-> res, by |-> Top(t).cause.kind]]
              ELSE @[j]]]

(* Faulty variant of the entry: prev_jmp_buf is copied after setjmp has    *)
(* filled the buffer, so that it holds the activation's own context.       *)
call_protected_save_late(t, v) ==
    /\ Runs(t)
    /\ Len(stack[t]) < MaxDepth
    /\ nextId <= MaxCalls
    /\ stack' = [stack EXCEPT ![t] = Append(@, Frame(nextId, nextId, v, TRAP_EARLY_DATA[t]))]
    /\ nextId' = nextId + 1
    /\ ev' = Event("call", t, nextId, "-", 0, v, "-")
    /\ UNCHANGED <<proc, SIGHANDLER_INIT, handlers, installs, SETJMP_BUFFER,
                   TRAP_EARLY_DATA, CAUGHT_FAULTS, BKPT_MAP>>

(* Entry: jmp_buf is located and its contents are copied to the local      *)
(* prev_jmp_buf.  v is the value the body f will return if it returns.     *)
call_protected(t, v) ==
    /\ Runs(t)
    /\ Len(stack[t]) < MaxDepth
    /\ nextId <= MaxCalls
    /\ stack' = [stack EXCEPT ![t] = Append(@, Frame(nextId, SETJMP_BUFFER[t], v, TRAP_EARLY_DATA[t]))]
    /\ nextId' = nextId + 1
    /\ ev' = Event("call", t, nextId, "-", 0, v, "-")
    /\ UNCHANGED <<proc, SIGHANDLER_INIT, handlers, installs, SETJMP_BUFFER,
                   TRAP_EARLY_DATA, CAUGHT_FAULTS, BKPT_MAP>>

(* Faulty variant of call_once: no latch, every caller that finds no       *)
(* installation running runs the closure.                                  *)
call_once_nolatch(t) ==
    /\ proc = "running"
    /\ stack[t] # <<>>
    /\ Top(t).pc = "once"
    /\ SIGHANDLER_INIT.state # "running"
    /\ SIGHANDLER_INIT' = [state |-> "running", owner |-> t]
    /\ installs' = installs + 1
    /\ stack' = SetTop(t, [Top(t) EXCEPT !.pc = "install", !.n = 0])
    /\ ev' = Event("once", t, Top(t).id, "-", 0, 0, "-")
    /\ UNCHANGED <<proc, handlers, nextId, SETJMP_BUFFER, TRAP_EARLY_DATA,
                   CAUGHT_FAULTS, BKPT_MAP>>

(* Faulty variant of call_once: a caller that finds the closure running    *)
(* does not wait for it.                                                   *)
call_once_nowait(t) ==
    /\ proc = "running"
    /\ stack[t] # <<>>
    /\ Top(t).pc = "once"
    /\ \/ /\ SIGHANDLER_INIT.state # "incomplete"
          /\ stack' = SetTop(t, [Top(t) EXCEPT !.pc = "setjmp"])
          /\ UNCHANGED <<SIGHANDLER_INIT, installs>>
       \/ /\ SIGHANDLER_INIT.state = "incomplete"
          /\ SIGHANDLER_INIT' = [state |-> "running", owner |-> t]
          /\ installs' = installs + 1
          /\ stack' = SetTop(t, [Top(t) EXCEPT !.pc = "install", !.n = 0])
    /\ ev' = Event("once", t, Top(t).id, "-", 0, 0, "-")
    /\ UNCHANGED <<proc, handlers, nextId, SETJMP_BUFFER, TRAP_EARLY_DATA,
                   CAUGHT_FAULTS, BKPT_MAP>>

(* SIGHANDLER_INIT.call_once: the first caller runs the closure, a caller  *)
(* that finds the closure running waits, later callers pass through.       *)
call_once(t) ==
    /\ proc = "running"
    /\ stack[t] # <<>>
    /\ Top(t).pc = "once"
    /\ \/ /\ SIGHANDLER_INIT.state = "complete"
          /\ stack' = SetTop(t, [Top(t) EXCEPT !.pc = "setjmp"])
          /\ UNCHANGED <<SIGHANDLER_INIT, installs>>
       \/ /\ SIGHANDLER_INIT.state = "incomplete"
          /\ SIGHANDLER_INIT' = [state |-> "running", owner |-> t]
          /\ installs' = installs + 1
          /\ stack' = SetTop(t, [Top(t) EXCEPT !.pc = "install", !.n = 0])
    /\ ev' = Event("once", t, Top(t).id, "-", 0, 0, "-")
    /\ UNCHANGED <<proc, handlers, nextId, SETJMP_BUFFER, TRAP_EARLY_DATA,
                   CAUGHT_FAULTS, BKPT_MAP>>

(* install_sighandler: one sigaction call per step, in source order; the   *)
(* latch completes when the closure returns.                               *)
install_sighandler(t) ==
    /\ proc = "running"
    /\ stack[t] # <<>>
    /\ Top(t).pc = "install"
    /\ LET k == Top(t).n + 1 IN
         /\ handlers' = [handlers EXCEPT ![SigOrder[k]] =
                            [fn |-> "signal_trap_handler", n |-> @.n + 1]]
         /\ ev' = Event("sigaction", t, Top(t).id, SigOrder[k], 0, 0, "-")
         /\ IF k = Len(SigOrder)
              THEN /\ SIGHANDLER_INIT' = [state |-> "complete", owner |-> 0]
                   /\ stack' = SetTop(t, [Top(t) EXCEPT !.pc = "setjmp", !.n = k])
              ELSE /\ UNCHANGED SIGHANDLER_INIT
                   /\ stack' = SetTop(t, [Top(t) EXCEPT !.n = k])
    /\ UNCHANGED <<proc, installs, nextId, SETJMP_BUFFER, TRAP_EARLY_DATA,
                   CAUGHT_FAULTS, BKPT_MAP>>

(* Faulty variant of setjmp: SETJMP_BUFFER is one static shared by all     *)
(* threads, not a thread-local.                                            *)
setjmp_shared(t) ==
    /\ proc = "running"
    /\ stack[t] # <<>>
    /\ Top(t).pc = "setjmp"
    /\ SETJMP_BUFFER' = [u \in Threads |-> Top(t).id]
    /\ stack' = SetTop(t, [Top(t) EXCEPT !.pc = "body"])
    /\ ev' = Event("setjmp", t, Top(t).id, "-", 0, 0, "-")
    /\ UNCHANGED <<proc, SIGHANDLER_INIT, handlers, installs, nextId,
                   TRAP_EARLY_DATA, CAUGHT_FAULTS, BKPT_MAP>>

(* setjmp returning 0: the buffer now holds this activation's context and  *)
(* the body f starts.                                                      *)
setjmp(t) ==
    /\ proc = "running"
    /\ stack[t] # <<>>
    /\ Top(t).pc = "setjmp"
    /\ SETJMP_BUFFER' = [SETJMP_BUFFER EXCEPT ![t] = Top(t).id]
    /\ stack' = SetTop(t, [Top(t) EXCEPT !.pc = "body"])
    /\ ev' = Event("setjmp", t, Top(t).id, "-", 0, 0, "-")
    /\ UNCHANGED <<proc, SIGHANDLER_INIT, handlers, installs, nextId,
                   TRAP_EARLY_DATA, CAUGHT_FAULTS, BKPT_MAP>>

----------------------------------------------------------------------------
(* The two ways out of call_protected *)

(* Faulty variant of the normal return: the saved buffer is not restored *)
call_protected_return_norestore(t) ==
    /\ proc = "running"
    /\ InBody(t)
    /\ ev' = Event("return", t, Top(t).id, "-", 0, Top(t).val, "Ok")
    /\ stack' = Pop(t, "Ok")
    /\ UNCHANGED <<proc, SIGHANDLER_INIT, handlers, installs, nextId, SETJMP_BUFFER,
                   TRAP_EARLY_DATA, CAUGHT_FAULTS, BKPT_MAP>>

(* f returned: *jmp_buf = prev_jmp_buf; Ok(ret) *)
call_protected_return(t) ==
    /\ proc = "running"
    /\ InBody(t)
    /\ SETJMP_BUFFER' = [SETJMP_BUFFER EXCEPT ![t] = Top(t).prev]
    /\ ev' = Event("return", t, Top(t).id, "-", 0, Top(t).val, "Ok")
    /\ stack' = Pop(t, "Ok")
    /\ UNCHANGED <<proc, SIGHANDLER_INIT, handlers, installs, nextId,
                   TRAP_EARLY_DATA, CAUGHT_FAULTS, BKPT_MAP>>

(* Faulty variant of the abnormal return: the saved buffer is not restored *)
call_protected_resume_norestore(t) ==
    /\ proc = "running"
    /\ stack[t] # <<>>
    /\ Top(t).pc = "resumed"
    /\ Top(t).signum # 0
    /\ TRAP_EARLY_DATA' = [TRAP_EARLY_DATA EXCEPT ![t] = None]
    /\ ev' = IF TRAP_EARLY_DATA[t].some
               THEN Event("resume", t, Top(t).id, "-", 0, TRAP_EARLY_DATA[t].v, "Error")
               ELSE Event("resume", t, Top(t).id, "-", 0, 0, "Trap")
    /\ stack' = Pop(t, IF TRAP_EARLY_DATA[t].some THEN "Error" ELSE "Trap")
    /\ UNCHANGED <<proc, SIGHANDLER_INIT, handlers, installs, nextId, SETJMP_BUFFER,
                   CAUGHT_FAULTS, BKPT_MAP>>

(* Faulty variant of the abnormal return: TRAP_EARLY_DATA is read but not  *)
(* emptied.                                                                *)
call_protected_resume_noclear(t) ==
    /\ proc = "running"
    /\ stack[t] # <<>>
    /\ Top(t).pc = "resumed"
    /\ Top(t).signum # 0
    /\ SETJMP_BUFFER' = [SETJMP_BUFFER EXCEPT ![t] = Top(t).prev]
    /\ ev' = IF TRAP_EARLY_DATA[t].some
               THEN Event("resume", t, Top(t).id, "-", 0, TRAP_EARLY_DATA[t].v, "Error")
               ELSE Event("resume", t, Top(t).id, "-", 0, 0, "Trap")
    /\ stack' = Pop(t, IF TRAP_EARLY_DATA[t].some THEN "Error" ELSE "Trap")
    /\ UNCHANGED <<proc, SIGHANDLER_INIT, handlers, installs, nextId,
                   TRAP_EARLY_DATA, CAUGHT_FAULTS, BKPT_MAP>>

(* setjmp returned signum != 0: *jmp_buf = prev_jmp_buf, then the result   *)
(* is chosen by TRAP_EARLY_DATA.replace(None).                             *)
call_protected_resume(t) ==
    /\ proc = "running"
    /\ stack[t] # <<>>
    /\ Top(t).pc = "resumed"
    /\ Top(t).signum # 0
    /\ SETJMP_BUFFER' = [SETJMP_BUFFER EXCEPT ![t] = Top(t).prev]
    /\ TRAP_EARLY_DATA' = [TRAP_EARLY_DATA EXCEPT ![t] = None]
    /\ ev' = IF TRAP_EARLY_DATA[t].some
               THEN Event("resume", t, Top(t).id, "-", 0, TRAP_EARLY_DATA[t].v, "Error")
               ELSE Event("resume", t, Top(t).id, "-", 0, 0, "Trap")
    /\ stack' = Pop(t, IF TRAP_EARLY_DATA[t].some THEN "Error" ELSE "Trap")
    /\ UNCHANGED <<proc, SIGHANDLER_INIT, handlers, installs, nextId,
                   CAUGHT_FAULTS, BKPT_MAP>>

----------------------------------------------------------------------------
(* longjmp *)

(* What a jump through a buffer that holds no live context can do: the     *)
(* behaviour is undefined; the process dies of a signal or continues in    *)
(* some arbitrary way not modelled further.                                *)
UBOutcomes == {"killed", "undefined"}

JmpTarget(t) == { i \in Armed(t) : stack[t][i].id = SETJMP_BUFFER[t] }

(* Faulty variant of longjmp: one recovery slot shared by all nesting      *)
(* levels, so that the jump lands in the outermost armed activation.       *)
longjmp_outermost(t, val, c) ==
    IF Armed(t) # {}
      THEN LET i == CHOOSE i \in Armed(t) : \A j \in Armed(t) : i <= j IN
             /\ stack' = [stack EXCEPT ![t] =
                   [j \in 1..i |->
                       IF j = i
                         THEN [stack[t][i] EXCEPT
                                 !.pc = "resumed",
                                 !.signum = IF val = 0 THEN 1 ELSE val,
                                 !.cause = c]
                         ELSE stack[t][j]]]
             /\ UNCHANGED proc
      ELSE /\ proc' \in UBOutcomes
           /\ UNCHANGED stack

(* longjmp(jmp_buf, val): control continues at the setjmp that filled the  *)
(* buffer, which now returns val (1 if val is 0); every activation above   *)
(* it is discarded.  c notes what raised the jump.                         *)
longjmp(t, val, c) ==
    IF JmpTarget(t) # {}
      THEN LET i == CHOOSE i \in JmpTarget(t) : TRUE IN
             /\ stack' = [stack EXCEPT ![t] =
                   [j \in 1..i |->
                       IF j = i
                         THEN [stack[t][i] EXCEPT
                                 !.pc = "resumed",
                                 !.signum = IF val = 0 THEN 1 ELSE val,
                                 !.cause = c]
                         ELSE stack[t][j]]]
             /\ UNCHANGED proc
      ELSE /\ proc' \in UBOutcomes
           /\ UNCHANGED stack

----------------------------------------------------------------------------
(* TrapPropagator *)

(* Faulty variant of throw: the payload is not stored before the jump *)
throw_nostore(t, p) ==
    /\ IF SETJMP_BUFFER[t] = 0
         THEN /\ proc' = "aborted"
              /\ UNCHANGED <<stack, TRAP_EARLY_DATA>>
         ELSE /\ UNCHANGED TRAP_EARLY_DATA
              /\ longjmp(t, ThrowCode, Cause("throw", t, p, "-", 0))
    /\ UNCHANGED <<SIGHANDLER_INIT, handlers, installs, nextId, SETJMP_BUFFER,
                   CAUGHT_FAULTS, BKPT_MAP>>

(* Faulty variant of throw: the payload is stored before the buffer is     *)
(* tested.                                                                 *)
throw_store_first(t, p) ==
    /\ TRAP_EARLY_DATA' = [TRAP_EARLY_DATA EXCEPT ![t] = Some(p)]
    /\ IF SETJMP_BUFFER[t] = 0
         THEN /\ proc' = "aborted"
              /\ UNCHANGED stack
         ELSE longjmp(t, ThrowCode, Cause("throw", t, p, "-", 0))
    /\ UNCHANGED <<SIGHANDLER_INIT, handlers, installs, nextId, SETJMP_BUFFER,
                   CAUGHT_FAULTS, BKPT_MAP>>

(* Faulty variant of throw: the jump carries the number of SIGSEGV *)
throw_signal_code(t, p) ==
    /\ IF SETJMP_BUFFER[t] = 0
         THEN /\ proc' = "aborted"
              /\ UNCHANGED <<stack, TRAP_EARLY_DATA>>
         ELSE /\ TRAP_EARLY_DATA' = [TRAP_EARLY_DATA EXCEPT ![t] = Some(p)]
              /\ longjmp(t, SigNum("SIGSEGV"), Cause("throw", t, p, "-", 0))
    /\ UNCHANGED <<SIGHANDLER_INIT, handlers, installs, nextId, SETJMP_BUFFER,
                   CAUGHT_FAULTS, BKPT_MAP>>

(* throw(payload), called by code running on thread t *)
throw(t, p) ==
    /\ IF SETJMP_BUFFER[t] = 0
         THEN /\ proc' = "aborted"
              /\ UNCHANGED <<stack, TRAP_EARLY_DATA>>
         ELSE /\ TRAP_EARLY_DATA' = [TRAP_EARLY_DATA EXCEPT ![t] = Some(p)]
              /\ longjmp(t, ThrowCode, Cause("throw", t, p, "-", 0))
    /\ UNCHANGED <<SIGHANDLER_INIT, handlers, installs, nextId, SETJMP_BUFFER,
                   CAUGHT_FAULTS, BKPT_MAP>>

(* Faulty variant of do_unwind: the buffer is not tested before the jump *)
do_unwind_nocheck(t, sig, ctx) ==
    /\ CAUGHT_FAULTS' = [CAUGHT_FAULTS EXCEPT ![t] = Some(get_fault_info(ctx))]
    /\ longjmp(t, SigNum(sig), Cause("fault", t, 0, sig, ctx.rip))
    /\ UNCHANGED <<SIGHANDLER_INIT, handlers, installs, nextId, SETJMP_BUFFER,
                   TRAP_EARLY_DATA, BKPT_MAP>>

(* Faulty variant of do_unwind: the snapshot is stored only into an empty  *)
(* CAUGHT_FAULTS.                                                          *)
do_unwind_keep_first(t, sig, ctx) ==
    /\ IF SETJMP_BUFFER[t] = 0
         THEN /\ proc' = "aborted"
              /\ UNCHANGED <<stack, CAUGHT_FAULTS>>
         ELSE /\ CAUGHT_FAULTS' = [CAUGHT_FAULTS EXCEPT ![t] =
                                      IF @.some THEN @ ELSE Some(get_fault_info(ctx))]
              /\ longjmp(t, SigNum(sig), Cause("fault", t, 0, sig, ctx.rip))
    /\ UNCHANGED <<SIGHANDLER_INIT, handlers, installs, nextId, SETJMP_BUFFER,
                   TRAP_EARLY_DATA, BKPT_MAP>>

(* do_unwind(signum, siginfo, ucontext) *)
do_unwind(t, sig, ctx) ==
    /\ IF SETJMP_BUFFER[t] = 0
         THEN /\ proc' = "aborted"
              /\ UNCHANGED <<stack, CAUGHT_FAULTS>>
         ELSE /\ CAUGHT_FAULTS' = [CAUGHT_FAULTS EXCEPT ![t] = Some(get_fault_info(ctx))]
              /\ longjmp(t, SigNum(sig), Cause("fault", t, 0, sig, ctx.rip))
    /\ UNCHANGED <<SIGHANDLER_INIT, handlers, installs, nextId, SETJMP_BUFFER,
                   TRAP_EARLY_DATA, BKPT_MAP>>

(* trigger_trap(): longjmp(jmp_buf, 0), with no test of the buffer *)
trigger_trap(t) ==
    /\ Runs(t)
    /\ longjmp(t, 0, Cause("trap", t, 0, "-", 0))
    /\ ev' = Event("trigger_trap", t, Innermost(t), "-", 0, 0, "-")
    /\ UNCHANGED <<SIGHANDLER_INIT, handlers, installs, nextId, SETJMP_BUFFER,
                   TRAP_EARLY_DATA, CAUGHT_FAULTS, BKPT_MAP>>

(* Host glue code running on t calls throw *)
host_throw(t, p) ==
    /\ Runs(t)
    /\ throw(t, p)
    /\ ev' = Event("throw", t, Innermost(t), "-", 0, p, "-")

----------------------------------------------------------------------------
(* SignalInterceptor *)

(* Faulty variant of the lookup: the oldest table is looked at *)
bkpt_lookup_bottom(t, sig, ip) ==
    IF sig = "SIGTRAP" /\ BKPT_MAP[t] # <<>> /\ ip \in DOMAIN BKPT_MAP[t][1]
      THEN Some(BKPT_MAP[t][1][ip])
      ELSE None

(* Faulty variant of the lookup: the signal is not looked at *)
bkpt_lookup_any_signal(t, sig, ip) ==
    IF BKPT_MAP[t] # <<>> /\ ip \in DOMAIN BKPT_MAP[t][Len(BKPT_MAP[t])]
      THEN Some(BKPT_MAP[t][Len(BKPT_MAP[t])][ip])
      ELSE None

(* The breakpoint callback the handler finds for a SIGTRAP at ip, if any:  *)
(* only the table on top of BKPT_MAP is looked at.                         *)
bkpt_lookup(t, sig, ip) ==
    IF sig = "SIGTRAP" /\ BKPT_MAP[t] # <<>>
         /\ ip \in DOMAIN BKPT_MAP[t][Len(BKPT_MAP[t])]
      THEN Some(BKPT_MAP[t][Len(BKPT_MAP[t])][ip])
      ELSE None

(* What the module of the faulting context offers the stack walk:          *)
(* get_module_state_map() and get_code() are Some, or one of them is None. *)
Modules == {"ok", "no_msm", "no_code"}

(* Faulty variant of the call: the handler has stored the decoded fault in *)
(* CAUGHT_FAULTS before it dispatches.                                     *)
callback_after_store(t, cb, fault) ==
    IF cb.kind = "return"
      THEN /\ CAUGHT_FAULTS' = [CAUGHT_FAULTS EXCEPT ![t] = Some(fault)]
           /\ UNCHANGED <<proc, SIGHANDLER_INIT, handlers, installs, nextId, stack,
                          SETJMP_BUFFER, TRAP_EARLY_DATA, BKPT_MAP>>
      ELSE throw(t, cb.payload)

(* Faulty variant of the call: the callback is handed do_unwind in the     *)
(* place of throw.                                                         *)
callback_unwinds(t, cb, fault) ==
    IF cb.kind = "return"
      THEN UNCHANGED <<proc, SIGHANDLER_INIT, handlers, installs, nextId, stack,
                       SETJMP_BUFFER, TRAP_EARLY_DATA, CAUGHT_FAULTS, BKPT_MAP>>
      ELSE do_unwind(t, "SIGTRAP", OsContext(fault.ip))

(* (x)(BkptInfo { throw: throw }): the callback cb runs inside the handler *)
(* and returns, or calls the throw it was handed.                          *)
callback(t, cb, fault) ==
    IF cb.kind = "return"
      THEN UNCHANGED <<proc, SIGHANDLER_INIT, handlers, installs, nextId, stack,
                       SETJMP_BUFFER, TRAP_EARLY_DATA, CAUGHT_FAULTS, BKPT_MAP>>
      ELSE throw(t, cb.payload)

(* signal_trap_handler, run by the OS on the thread that raised sig at     *)
(* instruction pointer a, in the context of a module m; frames is what     *)
(* read_stack returns, colorize whether the colored crate colours.  A      *)
(* panic cannot leave the extern "C" handler: it ends the process.         *)
signal_trap_handler(t, sig, a, m, frames, colorize) ==
    /\ Runs(t)
    /\ handlers[sig].fn = "signal_trap_handler"
    /\ LET ctx == OsContext(a)
           fault == get_fault_info(ctx)
           cb == bkpt_lookup(t, sig, fault.ip)
       IN
         IF cb.some
           THEN /\ ev' = Event("signal", t, Innermost(t), sig, a, cb.v.payload, cb.v.kind)
                /\ callback(t, cb.v, fault)
           ELSE IF /\ fault.known_registers[GPRIndex.R15].some
                   /\ fault.known_registers[GPRIndex.RSP].some
                   /\ m = "ok"
                  THEN /\ ev' = [Event("signal", t, Innermost(t), sig, a,
                                         [frames |-> frames, colorize |-> colorize],
                                         "unwind")
                                   EXCEPT !.out = Report(frames, colorize)]
                       /\ do_unwind(t, sig, ctx)
                  ELSE \* one of the unwrap() calls meets None: panic in the handler
                       /\ ev' = Event("signal", t, Innermost(t), sig, a, 0, m)
                       /\ proc' = "panicked"
                       /\ UNCHANGED <<SIGHANDLER_INIT, handlers, installs, nextId,
                                      stack, SETJMP_BUFFER, TRAP_EARLY_DATA,
                                      CAUGHT_FAULTS, BKPT_MAP>>

(* A signal whose disposition is still the default one ends the process *)
signal_default(t, sig) ==
    /\ Runs(t)
    /\ handlers[sig].fn = "SIG_DFL"
    /\ proc' = "killed"
    /\ ev' = Event("signal", t, Innermost(t), sig, 0, 0, "default")
    /\ UNCHANGED <<SIGHANDLER_INIT, handlers, installs, nextId, stack,
                   SETJMP_BUFFER, TRAP_EARLY_DATA, CAUGHT_FAULTS, BKPT_MAP>>

----------------------------------------------------------------------------
(* BreakpointDispatch: the caller of call_protected pushes its table and   *)
(* pops it again.                                                          *)

bkpt_push(t, tbl) ==
    /\ Runs(t)
    /\ Len(BKPT_MAP[t]) < MaxBkpt
    /\ BKPT_MAP' = [BKPT_MAP EXCEPT ![t] = Append(@, tbl)]
    /\ ev' = Event("push", t, Innermost(t), "-", 0, 0, "-")
    /\ UNCHANGED <<proc, SIGHANDLER_INIT, handlers, installs, nextId, stack,
                   SETJMP_BUFFER, TRAP_EARLY_DATA, CAUGHT_FAULTS>>

bkpt_pop(t) ==
    /\ Runs(t)
    /\ BKPT_MAP[t] # <<>>
    /\ BKPT_MAP' = [BKPT_MAP EXCEPT ![t] = SubSeq(@, 1, Len(@) - 1)]
    /\ ev' = Event("pop", t, Innermost(t), "-", 0, 0, "-")
    /\ UNCHANGED <<proc, SIGHANDLER_INIT, handlers, installs, nextId, stack,
                   SETJMP_BUFFER, TRAP_EARLY_DATA, CAUGHT_FAULTS>>

----------------------------------------------------------------------------
(* Spec: one thread performs every operation with every input but those   *)
(* of the report, the other threads stay at their initial state.           *)
Next ==
    \/ \E t \in Solo : call_protected(t, BodyValue(nextId))
    \/ \E t \in Solo : call_once(t)
    \/ \E t \in Solo : install_sighandler(t)
    \/ \E t \in Solo : setjmp(t)
    \/ \E t \in Solo : call_protected_return(t)
    \/ \E t \in Solo : call_protected_resume(t)
    \/ \E t \in Solo, p \in Payloads : host_throw(t, p)
    \/ \E t \in Solo : trigger_trap(t)
    \/ \E t \in Solo, sig \in Signals, a \in Addrs, m \in Modules :
          signal_trap_handler(t, sig, a, m, <<FrameA>>, FALSE)
    \/ \E t \in Solo, sig \in Signals : signal_default(t, sig)
    \/ \E t \in Solo, tbl \in Tables : bkpt_push(t, tbl)
    \/ \E t \in Solo : bkpt_pop(t)

Spec == Init /\ [][Next]_vars

(* SpecMT: every thread runs, concurrently; one payload, one signal at one *)
(* address, no breakpoint tables.                                          *)
NextMT ==
    \/ \E t \in Threads : call_protected(t, BodyValue(nextId))
    \/ \E t \in Threads : call_once(t)
    \/ \E t \in Threads : install_sighandler(t)
    \/ \E t \in Threads : setjmp(t)
    \/ \E t \in Threads : call_protected_return(t)
    \/ \E t \in Threads : call_protected_resume(t)
    \/ \E t \in Threads : host_throw(t, 101)
    \/ \E t \in Threads : trigger_trap(t)
    \/ \E t \in Threads, m \in Modules :
          signal_trap_handler(t, "SIGSEGV", 1, m, <<FrameA>>, FALSE)
    \/ \E t \in Threads : signal_default(t, "SIGSEGV")

SpecMT == Init /\ [][NextMT]_vars

(* SpecDiag: one thread, no breakpoint tables; every signal at one         *)
(* address, with every outcome of the stack walk and colouring on or off.  *)
NextDiag ==
    \/ \E t \in Solo : call_protected(t, BodyValue(nextId))
    \/ \E t \in Solo : call_once(t)
    \/ \E t \in Solo : install_sighandler(t)
    \/ \E t \in Solo : setjmp(t)
    \/ \E t \in Solo : call_protected_return(t)
    \/ \E t \in Solo : call_protected_resume(t)
    \/ \E t \in Solo : host_throw(t, 101)
    \/ \E t \in Solo : trigger_trap(t)
    \/ \E t \in Solo, sig \in Signals, m \in Modules,
          frames \in FrameSeqs, colorize \in BOOLEAN :
          signal_trap_handler(t, sig, 1, m, frames, colorize)
    \/ \E t \in Solo, sig \in Signals : signal_default(t, sig)

SpecDiag == Init /\ [][NextDiag]_vars

(* SpecFmt: format_optional_u64_sequence applied to every sequence of at   *)
(* most MaxLen entries, with colouring on and off.  The observation holds  *)
(* the argument, and the string returned once the function has run.        *)
RECURSIVE SeqsUpTo(_, _)
SeqsUpTo(S, n) ==
    IF n = 0
      THEN { <<>> }
      ELSE LET shorter == SeqsUpTo(S, n - 1) IN
             shorter \cup { Append(q, e) : q \in { r \in shorter : Len(r) = n - 1 }, e \in S }

InitFmt ==
    /\ proc = "running"
    /\ SIGHANDLER_INIT = [state |-> "incomplete", owner |-> 0]
    /\ handlers = [s \in Signals |-> [fn |-> "SIG_DFL", n |-> 0]]
    /\ installs = 0
    /\ nextId = 1
    /\ stack = [t \in Threads |-> <<>>]
    /\ SETJMP_BUFFER = [t \in Threads |-> 0]
    /\ TRAP_EARLY_DATA = [t \in Threads |-> None]
    /\ CAUGHT_FAULTS = [t \in Threads |-> None]
    /\ BKPT_MAP = [t \in Threads |-> <<>>]
    /\ ev \in { [op |-> "input", x |-> x, colorize |-> c, ret |-> ""] :
                   x \in SeqsUpTo(OptU64, MaxLen), c \in BOOLEAN }

format_call ==
    /\ ev.op = "input"
    /\ ev' = [ev EXCEPT !.op = "format",
                        !.ret = format_optional_u64_sequence(ev.x, ev.colorize)]
    /\ UNCHANGED <<proc, SIGHANDLER_INIT, handlers, installs, nextId, stack,
                   SETJMP_BUFFER, TRAP_EARLY_DATA, CAUGHT_FAULTS, BKPT_MAP>>

NextFmt == format_call

SpecFmt == InitFmt /\ [][NextFmt]_vars

(* SpecDecode: get_fault_info applied to OS contexts in which one          *)
(* register, or none, holds 0.  The observation holds the context, and the *)
(* FaultInfo returned once the decoder has run.                            *)
Contexts ==
    { [OsContext(a) EXCEPT
          !.si_addr = s,
          !.ss = [g \in GPRNames |-> IF g = z THEN 0 ELSE @[g]]] :
        a \in Addrs, s \in {0, 10}, z \in GPRNames \cup {"-"} }

InitDecode ==
    /\ proc = "running"
    /\ SIGHANDLER_INIT = [state |-> "incomplete", owner |-> 0]
    /\ handlers = [s \in Signals |-> [fn |-> "SIG_DFL", n |-> 0]]
    /\ installs = 0
    /\ nextId = 1
    /\ stack = [t \in Threads |-> <<>>]
    /\ SETJMP_BUFFER = [t \in Threads |-> 0]
    /\ TRAP_EARLY_DATA = [t \in Threads |-> None]
    /\ CAUGHT_FAULTS = [t \in Threads |-> None]
    /\ BKPT_MAP = [t \in Threads |-> <<>>]
    /\ ev \in { [op |-> "context", ctx |-> c, fault |-> None] : c \in Contexts }

decode_call ==
    /\ ev.op = "context"
    /\ ev' = [ev EXCEPT !.op = "decode", !.fault = Some(get_fault_info(ev.ctx))]
    /\ UNCHANGED <<proc, SIGHANDLER_INIT, handlers, installs, nextId, stack,
                   SETJMP_BUFFER, TRAP_EARLY_DATA, CAUGHT_FAULTS, BKPT_MAP>>

NextDecode == decode_call

SpecDecode == InitDecode /\ [][NextDecode]_vars

(* SpecExe: CreateExe::execute of create_exe.rs for the serialized object  *)
(* format, one action per step.  The observation holds the position in     *)
(* execute, the steps taken so far, the files on disk, the step that       *)
(* failed, the way execute ended, and the world the steps run in: whether  *)
(* the module compiles, whether the two files can be written, what         *)
(* WASMER_DIR points to, and how the C compiler and the linker run.        *)
WasmerDirs == { "unset", "header", "include_header", "include_empty", "bare" }

ToolRuns == { "absent", "success", "failure", "failure_bytes" }

Worlds ==
    [ module : BOOLEAN, obj_io : BOOLEAN, src_io : BOOLEAN,
      wasmer_dir : WasmerDirs, cc : ToolRuns, linker : ToolRuns ]

(* get_wasmer_dir: Err when WASMER_DIR is unset *)
get_wasmer_dir(w) == IF w.wasmer_dir = "unset" THEN "Err" ELSE "Ok"

(* get_wasmer_include_directory: the directory itself when it holds        *)
(* wasmer.h, else its include directory; reporting an include directory    *)
(* without wasmer.h unwraps its canonical path, which panics when the      *)
(* directory does not exist                                                *)
get_wasmer_include_directory(w) ==
    IF get_wasmer_dir(w) = "Err" THEN "Err"
    ELSE IF w.wasmer_dir = "header" THEN "Ok"
    ELSE IF w.wasmer_dir = "include_header" THEN "Ok"
    ELSE IF w.wasmer_dir = "include_empty" THEN "Ok"
    ELSE "panic"

get_libwasmer_path(w) == get_wasmer_dir(w)

(* What a finished command gives: Err when it cannot be started or exits   *)
(* unsuccessfully, a panic when it exits unsuccessfully and its output is  *)
(* not UTF-8 (the expect inside bail!)                                     *)
command_result(run) ==
    CASE run = "absent" -> "Err"
      [] run = "failure" -> "Err"
      [] run = "failure_bytes" -> "panic"
      [] OTHER -> "Ok"

InitExe ==
    /\ proc = "running"
    /\ SIGHANDLER_INIT = [state |-> "incomplete", owner |-> 0]
    /\ handlers = [s \in Signals |-> [fn |-> "SIG_DFL", n |-> 0]]
    /\ installs = 0
    /\ nextId = 1
    /\ stack = [t \in Threads |-> <<>>]
    /\ SETJMP_BUFFER = [t \in Threads |-> 0]
    /\ TRAP_EARLY_DATA = [t \in Threads |-> None]
    /\ CAUGHT_FAULTS = [t \in Threads |-> None]
    /\ BKPT_MAP = [t \in Threads |-> <<>>]
    /\ ev \in { [op |-> "execute", pc |-> "write_object", log |-> <<>>, files |-> {},
                 failed |-> "-", result |-> "-", world |-> w] : w \in Worlds }

(* A step of execute that ends it: the ? operator returns the Err, a panic *)
(* unwinds out of execute                                                  *)
leave(e, step, how) == [e EXCEPT !.op = step, !.pc = "done", !.failed = step, !.result = how]

(* The step succeeded and execute goes on to the next one *)
advance(e, step, next, file) ==
    [e EXCEPT !.op = step, !.pc = next, !.files = @ \cup {file}]

write_module_object ==
    /\ ev.pc = "write_object"
    /\ ev' = IF ~ev.world.module
               THEN leave(ev, "write_object", "Err")
               ELSE LET e == [ev EXCEPT !.log = Append(@, "write_object")] IN
                      IF ~ev.world.obj_io
                        THEN leave(e, "write_object", "Err")
                        ELSE advance(e, "write_object", "write_c", "wasm.o")
    /\ UNCHANGED <<proc, SIGHANDLER_INIT, handlers, installs, nextId, stack,
                   SETJMP_BUFFER, TRAP_EARLY_DATA, CAUGHT_FAULTS, BKPT_MAP>>

compile_c_write ==
    /\ ev.pc = "write_c"
    /\ ev' = LET e == [ev EXCEPT !.log = Append(@, "write_c")] IN
               IF ~ev.world.src_io
                 THEN leave(e, "write_c", "Err")
                 ELSE advance(e, "write_c", "run_c_compile", "wasmer_main.c")
    /\ UNCHANGED <<proc, SIGHANDLER_INIT, handlers, installs, nextId, stack,
                   SETJMP_BUFFER, TRAP_EARLY_DATA, CAUGHT_FAULTS, BKPT_MAP>>

run_c_compile ==
    /\ ev.pc = "run_c_compile"
    /\ ev' = LET inc == get_wasmer_include_directory(ev.world) IN
               IF inc # "Ok"
                 THEN leave(ev, "cc", inc)
                 ELSE LET e == [ev EXCEPT !.log = Append(@, "cc")]
                          r == command_result(ev.world.cc) IN
                        IF r # "Ok"
                          THEN leave(e, "cc", r)
                          ELSE advance(e, "cc", "link", "wasmer_main.o")
    /\ UNCHANGED <<proc, SIGHANDLER_INIT, handlers, installs, nextId, stack,
                   SETJMP_BUFFER, TRAP_EARLY_DATA, CAUGHT_FAULTS, BKPT_MAP>>

(* LinkCode { .. } with Default::default(), then run: both unwraps come    *)
(* before the linker is started                                            *)
LinkCode_run ==
    /\ ev.pc = "link"
    /\ ev' = IF get_libwasmer_path(ev.world) # "Ok"
               THEN leave(ev, "link", "panic")
             ELSE IF ~({"wasmer_main.o", "wasm.o"} \subseteq ev.files)
               THEN leave(ev, "link", "panic")
             ELSE LET e == [ev EXCEPT !.log = Append(@, "link")]
                      r == command_result(ev.world.linker) IN
                    IF r # "Ok"
                      THEN leave(e, "link", r)
                      ELSE advance(e, "link", "message", "output")
    /\ UNCHANGED <<proc, SIGHANDLER_INIT, handlers, installs, nextId, stack,
                   SETJMP_BUFFER, TRAP_EARLY_DATA, CAUGHT_FAULTS, BKPT_MAP>>

execute_return ==
    /\ ev.pc = "message"
    /\ ev' = [ev EXCEPT !.op = "message", !.pc = "done",
                        !.log = Append(@, "message"), !.result = "Ok"]
    /\ UNCHANGED <<proc, SIGHANDLER_INIT, handlers, installs, nextId, stack,
                   SETJMP_BUFFER, TRAP_EARLY_DATA, CAUGHT_FAULTS, BKPT_MAP>>

NextExe ==
    \/ write_module_object
    \/ compile_c_write
    \/ run_c_compile
    \/ LinkCode_run
    \/ execute_return

SpecExe == InitExe /\ [][NextExe]_vars

----------------------------------------------------------------------------
(* Properties *)

(* The activation that was on top of the stack of ev.t before the step *)
PreTop == ev.pre.stack[Len(ev.pre.stack)]

(* Two activation records agree in everything the code keeps *)
SameFrame(f, g) == [f EXCEPT !.inner = NoInner] = [g EXCEPT !.inner = NoInner]

Terminated == {"aborted", "panicked", "killed"}

(* C1: when the body returns normally, call_protected returns Ok of the    *)
(* body's value, and SETJMP_BUFFER and TRAP_EARLY_DATA of the thread are   *)
(* what they were when the call was entered.                               *)
C1_NormalReturnRestores ==
    ev.op = "return" =>
        /\ ev.res = "Ok"
        /\ ev.val = BodyValue(PreTop.id)
        /\ ev.scope = PreTop.id
        /\ SETJMP_BUFFER[ev.t] = PreTop.entry.buf
        /\ TRAP_EARLY_DATA[ev.t] = PreTop.entry.early
        /\ Len(stack[ev.t]) = Len(ev.pre.stack) - 1

(* A nested call_protected has returned Ok and left a real target behind *)
C1_Witness ==
    /\ ev.op = "return"
    /\ ev.res = "Ok"
    /\ SETJMP_BUFFER[ev.t] # 0
    /\ PreTop.entry.buf = SETJMP_BUFFER[ev.t]

(* C2: throw(p) in the body of a live call_protected resumes the innermost *)
(* live call_protected of the thread, which returns Err(HostError(p)) with *)
(* the payload thrown, not a trap and not Ok.                              *)
C2_ThrowYieldsHostError ==
    /\ (ev.op = "throw" /\ ev.scope # 0) =>
          /\ proc = "running"
          /\ Len(stack[ev.t]) = Len(ev.pre.stack)
          /\ Top(ev.t).id = ev.scope
          /\ Top(ev.t).pc = "resumed"
          /\ Top(ev.t).cause.kind = "throw"
          /\ Top(ev.t).cause.payload = ev.val
    /\ \A t \in Threads : \A i \in DOMAIN stack[t] :
          (stack[t][i].pc = "resumed" /\ stack[t][i].cause.kind = "throw") =>
              /\ i = Len(stack[t])
              /\ stack[t][i].cause.scope = stack[t][i].id
              /\ TRAP_EARLY_DATA[t] = Some(stack[t][i].cause.payload)
    /\ (ev.op = "resume" /\ PreTop.cause.kind = "throw") =>
          /\ ev.res = "Error"
          /\ ev.val = PreTop.cause.payload
          /\ ev.scope = PreTop.cause.scope

(* A nested call_protected has returned the thrown payload 102 *)
C2_Witness ==
    /\ ev.op = "resume"
    /\ ev.res = "Error"
    /\ ev.val = 102
    /\ PreTop.cause.kind = "throw"
    /\ Len(ev.pre.stack) >= 2

(* C3: a hardware fault no breakpoint matches, raised while a              *)
(* call_protected is live on the thread, resumes the innermost live        *)
(* call_protected, which returns Err(UnknownTrap); the process goes on.    *)
C3_FaultRecovered ==
    /\ (ev.op = "signal" /\ ev.res \in {"unwind"} \cup (Modules \ {"ok"}) /\ ev.scope # 0) =>
          /\ proc = "running"
          /\ Top(ev.t).id = ev.scope
          /\ Top(ev.t).pc = "resumed"
          /\ Top(ev.t).cause.kind = "fault"
    /\ (ev.op = "resume" /\ PreTop.cause.kind = "fault") =>
          /\ ev.res = "Trap"
          /\ ev.scope = PreTop.cause.scope

(* C4: a jump raised in a scope lands in that scope, which is the          *)
(* innermost one, and leaves every outer activation as it was; the Err     *)
(* goes to the caller of that scope alone; an outer scope whose body then  *)
(* returns normally returns Ok of its own value.                           *)
C4_InnermostOnly ==
    /\ \A t \in Threads : \A i \in DOMAIN stack[t] :
          stack[t][i].pc = "resumed" =>
              /\ i = Len(stack[t])
              /\ stack[t][i].cause.scope = stack[t][i].id
    /\ (ev.op \in {"throw", "signal", "trigger_trap"} /\ ev.pre.stack # <<>>) =>
          /\ Len(stack[ev.t]) = Len(ev.pre.stack)
          /\ \A j \in 1..(Len(ev.pre.stack) - 1) : stack[ev.t][j] = ev.pre.stack[j]
    /\ ev.op = "resume" =>
          /\ ev.res \in {"Trap", "Error"}
          /\ ev.scope = PreTop.id
          /\ Len(stack[ev.t]) = Len(ev.pre.stack) - 1
          /\ \A j \in 1..Len(stack[ev.t]) : SameFrame(stack[ev.t][j], ev.pre.stack[j])
          /\ stack[ev.t] # <<>> =>
                /\ Top(ev.t).pc = "body"
                /\ Top(ev.t).inner.res = ev.res
    /\ (ev.op = "return" /\ PreTop.inner.res \in {"Trap", "Error"}) =>
          /\ ev.res = "Ok"
          /\ ev.scope = PreTop.id
          /\ ev.val = BodyValue(PreTop.id)

(* At depth 2, a scope whose own inner scope ended with Err has returned   *)
(* Ok, to a body that goes on.                                             *)
C4_Witness ==
    /\ ev.op = "return"
    /\ ev.res = "Ok"
    /\ PreTop.inner.res \in {"Trap", "Error"}
    /\ Len(ev.pre.stack) = 2
    /\ InBody(ev.t)

(* C5: once an inner scope has returned Err for a fault, a second fault or *)
(* throw raised in the body of the outer scope resumes the outer scope;    *)
(* the process is not ended and the inner scope is not entered again.      *)
C5_SecondFaultCaughtByOuter ==
    (/\ ev.op \in {"signal", "throw"}
     /\ ev.res # "return"
     /\ ev.pre.stack # <<>>
     /\ PreTop.inner.by = "fault") =>
        /\ proc = "running"
        /\ Len(stack[ev.t]) = Len(ev.pre.stack)
        /\ Top(ev.t).id = PreTop.id
        /\ Top(ev.t).pc = "resumed"

(* C6: while the process runs, SETJMP_BUFFER of a thread holds the context *)
(* of the innermost call_protected whose body has started and which has    *)
(* not returned, and is all-zero exactly when there is none; each          *)
(* activation keeps the target it found, and both exits put it back.       *)
C6_TargetIsInnermostLive ==
    proc = "running" =>
        /\ \A t \in Threads :
              /\ SETJMP_BUFFER[t] = Innermost(t)
              /\ (SETJMP_BUFFER[t] = 0) <=> (Armed(t) = {})
              /\ \A i \in DOMAIN stack[t] :
                    /\ stack[t][i].pc \notin {"body", "resumed"} => i = Len(stack[t])
                    /\ stack[t][i].prev = IF i = 1 THEN 0 ELSE stack[t][i - 1].id
                    /\ stack[t][i].id # 0
        /\ ev.op \in {"return", "resume"} => SETJMP_BUFFER[ev.t] = PreTop.prev
        /\ ev.op = "setjmp" => SETJMP_BUFFER[ev.t] = ev.scope /\ InBody(ev.t)

(* An inner scope has ended abnormally and the outer target is back *)
C6_Witness ==
    /\ ev.op = "resume"
    /\ proc = "running"
    /\ SETJMP_BUFFER[ev.t] # 0
    /\ SETJMP_BUFFER[ev.t] = Top(ev.t).id

(* C7: a hardware fault no breakpoint matches, delivered to a thread with  *)
(* no live call_protected, ends the process (abort once do_unwind is       *)
(* reached); nothing is returned and no scope is resumed.                  *)
C7_FaultWithoutScopeTerminates ==
    (ev.op = "signal" /\ ev.scope = 0 /\ ev.res \notin {"return", "throw"}) =>
        /\ proc \in Terminated
        /\ ev.res = "unwind" => proc = "aborted"
        /\ Locals(ev.t) = ev.pre

(* The installed handler has run with no scope live and has aborted *)
C7_Witness ==
    /\ ev.op = "signal"
    /\ ev.res = "unwind"
    /\ ev.scope = 0
    /\ proc = "aborted"

(* C8: throw on a thread with no live call_protected aborts the process,   *)
(* with TRAP_EARLY_DATA still empty and no jump made; and no throw returns *)
(* to its caller.                                                          *)
C8_ThrowWithoutScopeAborts ==
    /\ ((ev.op = "throw" \/ (ev.op = "signal" /\ ev.res = "throw")) /\ ev.scope = 0) =>
          /\ proc = "aborted"
          /\ ~TRAP_EARLY_DATA[ev.t].some
          /\ Locals(ev.t) = ev.pre
    /\ ev.op = "throw" => ~Runs(ev.t)

(* throw has aborted after an earlier call_protected had come and gone *)
C8_Witness ==
    /\ ev.op = "throw"
    /\ ev.scope = 0
    /\ proc = "aborted"
    /\ nextId > 1

C10_BreakpointResumes ==
    (/\ ev.op = "signal"
     /\ ev.sig = "SIGTRAP"
     /\ ev.res # "default"
     /\ ev.pre.bkpt # <<>>
     /\ ev.ip \in DOMAIN ev.pre.bkpt[Len(ev.pre.bkpt)]) =>
        LET cb == ev.pre.bkpt[Len(ev.pre.bkpt)][ev.ip] IN
          /\ ev.res = cb.kind
          /\ cb.kind = "return" =>
                /\ proc = "running"
                /\ Locals(ev.t) = ev.pre
                /\ ev.pre.stack # <<>> => InBody(ev.t) /\ Top(ev.t).cause = NoCause

(* A returning callback has run inside a body, under two tables *)
C10_Witness ==
    /\ ev.op = "signal"
    /\ ev.sig = "SIGTRAP"
    /\ ev.res = "return"
    /\ InBody(ev.t)
    /\ Len(BKPT_MAP[ev.t]) = 2

(* The tables of the stack bk that hold the address ip *)
TablesWith(bk, ip) == { i \in DOMAIN bk : ip \in DOMAIN bk[i] }

(* C11: on a SIGTRAP the handler runs the callback of the table pushed     *)
(* last among the tables that hold the instruction pointer, also when that *)
(* table is not the one on top.                                            *)
C11_DispatchScansDownward ==
    (/\ ev.op = "signal"
     /\ ev.sig = "SIGTRAP"
     /\ ev.res \notin {"default", "no_msm", "no_code"}
     /\ TablesWith(ev.pre.bkpt, ev.ip) # {}) =>
        LET i == CHOOSE i \in TablesWith(ev.pre.bkpt, ev.ip) :
                    \A j \in TablesWith(ev.pre.bkpt, ev.ip) : j <= i
            cb == ev.pre.bkpt[i][ev.ip]
        IN /\ ev.res = cb.kind
           /\ ev.val = cb.payload

(* The stack walk of the last step failed: the module had no state map or  *)
(* no code, or no frame could be read.                                     *)
StackWalkFailed ==
    /\ ev.op = "signal"
    /\ \/ ev.res \in {"no_msm", "no_code"}
       \/ ev.res = "unwind" /\ ev.val.frames = <<>>

(* C12: when the stack walk fails for a fault raised under a live          *)
(* call_protected, the handler still reaches do_unwind: the fault is       *)
(* stored, the innermost scope is resumed and the process runs on.         *)
C12_StackWalkNeverBlocksUnwind ==
    (StackWalkFailed /\ ev.scope # 0) =>
        /\ proc = "running"
        /\ CAUGHT_FAULTS[ev.t] = Some(get_fault_info(OsContext(ev.ip)))
        /\ Top(ev.t).id = ev.scope
        /\ Top(ev.t).pc = "resumed"
        /\ Top(ev.t).signum = SigNum(ev.sig)

(* The handler of the last step took a signal as a hardware fault *)
FaultIntercepted ==
    /\ ev.op = "signal"
    /\ ev.res \in {"unwind", "no_msm", "no_code"}

(* C13: the handler writes the report for every fault it takes, with or    *)
(* without a live call_protected, also when it then aborts; a throw writes *)
(* nothing.                                                                *)
C13_ReportForEveryFault ==
    /\ FaultIntercepted =>
          /\ Len(ev.out) >= 4
          /\ ev.out[2] \in {ReportHeader(c) : c \in BOOLEAN}
    /\ ev.op = "throw" => ev.out = <<>>

(* Every line that can be the title of a frame entry *)
FrameTitles ==
    { FrameTitle(i, f.local_function_id, c) :
        i \in 0..2, f \in {FrameA, FrameB}, c \in BOOLEAN }

(* The lines of a report that are not blank *)
Content(out) == SelectSeq(out, LAMBDA l : l # "")

(* C14: for no frame the report is the header and the one line "cannot     *)
(* read stack", with no backtrace; for one or more frames it is the        *)
(* header, "Backtrace:" and one entry per frame, in the order of the       *)
(* frames, and never the line "cannot read stack".                         *)
C14_ReportShape ==
    (ev.op = "signal" /\ ev.res = "unwind") =>
        LET frames == ev.val.frames
            c == ev.val.colorize
            titles == SelectSeq(ev.out, LAMBDA l : l \in FrameTitles)
        IN /\ Content(ev.out)[1] = ReportHeader(c)
           /\ Len(frames) = 0 =>
                 /\ Content(ev.out) = <<ReportHeader(c), CannotReadStack(c)>>
                 /\ titles = <<>>
           /\ Len(frames) > 0 =>
                 /\ Content(ev.out)[2] = BacktraceTitle(c)
                 /\ \A k \in DOMAIN ev.out : ev.out[k] # CannotReadStack(c)
                 /\ titles = [k \in 1..Len(frames) |->
                                FrameTitle(k - 1, frames[k].local_function_id, c)]
                 /\ Len(Content(ev.out)) = 2 + 3 * Len(frames)

(* A coloured report of two frames has been written under a live scope *)
C14_Witness ==
    /\ ev.op = "signal"
    /\ ev.res = "unwind"
    /\ ev.scope # 0
    /\ ev.val.colorize
    /\ ev.val.frames = <<FrameB, FrameA>>

(* The entry of index i for the optional value o, the value in the plain   *)
(* or in the coloured writing                                              *)
Entry(i, o, coloured) ==
    "[" \o ToString(i) \o "] = "
        \o (IF coloured THEN "<ESC>[1;36m" ELSE "")
        \o (IF o.some THEN ToString(o.v) ELSE "?")
        \o (IF coloured THEN "<ESC>[0m" ELSE "")

(* "(empty)", or the entries of x in order with ", " between neighbours *)
RECURSIVE Rendered(_, _)
Rendered(x, coloured) ==
    IF Len(x) = 0 THEN "(empty)"
    ELSE IF Len(x) = 1 THEN Entry(0, x[1], coloured)
    ELSE Rendered(SubSeq(x, 1, Len(x) - 1), coloured)
           \o ", " \o Entry(Len(x) - 1, x[Len(x)], coloured)

(* C15 as stated: format_optional_u64_sequence(x) is "(empty)" for the     *)
(* empty x, and otherwise the entries "[i] = v" in order, joined by ", ",  *)
(* v being the decimal value or "?".                                       *)
C15_FormatPlain ==
    ev.op = "format" => ev.ret = Rendered(ev.x, FALSE)

(* C15, amended: as stated, with every v written in bold cyan, that is     *)
(* between the escape sequences of that style when colouring is on, and    *)
(* bare when it is off.                                                    *)
C15_FormatStyled ==
    ev.op = "format" =>
        /\ ev.ret = Rendered(ev.x, ev.colorize)
        /\ ev.x = <<>> => ev.ret = "(empty)"
        /\ (ev.x = <<Some(7), None>> /\ ~ev.colorize) => ev.ret = "[0] = 7, [1] = ?"
        /\ (ev.x = <<None>> /\ ev.colorize) => ev.ret = "[0] = <ESC>[1;36m?<ESC>[0m"

(* Three entries, absent and present ones, have been formatted in colour *)
C15_Witness ==
    /\ ev.op = "format"
    /\ ev.colorize
    /\ ev.x = <<Some(0), None, Some(2147483647)>>
    /\ ev.ret # ""

(* C16: TRAP_EARLY_DATA of a thread is occupied only from the store of a   *)
(* throw until the call_protected the throw resumed takes the payload out; *)
(* it is empty while a body runs, at the top level, and after every return *)
(* of call_protected, and the resumed scope's read empties it.             *)
C16_PendingOnlyUntilConsumed ==
    /\ \A t \in Threads :
          /\ TRAP_EARLY_DATA[t].some =>
                /\ stack[t] # <<>>
                /\ Top(t).pc = "resumed"
                /\ Top(t).cause.kind = "throw"
                /\ TRAP_EARLY_DATA[t] = Some(Top(t).cause.payload)
          /\ (AtTop(t) \/ InBody(t)) => TRAP_EARLY_DATA[t] = None
    /\ ev.op \in {"return", "resume"} => TRAP_EARLY_DATA[ev.t] = None
    /\ (ev.op = "resume" /\ ev.res = "Error") => ev.pre.early = Some(ev.val)
    /\ (ev.op = "resume" /\ ev.res = "Trap") => ev.pre.early = None
    /\ (ev.op = "throw" /\ ev.scope # 0) =>
          /\ ev.pre.early = None
          /\ TRAP_EARLY_DATA[ev.t] = Some(ev.val)

(* An inner scope has taken a thrown payload out and the outer body runs *)
C16_Witness ==
    /\ ev.op = "resume"
    /\ ev.res = "Error"
    /\ ev.pre.early.some
    /\ TRAP_EARLY_DATA[ev.t] = None
    /\ InBody(ev.t)

(* The recovery state of thread u *)
Recovery(u) ==
    [buf |-> SETJMP_BUFFER[u], early |-> TRAP_EARLY_DATA[u],
     caught |-> CAUGHT_FAULTS[u], stack |-> stack[u]]

(* A step of thread t leaves the recovery state of every other thread *)
OthersUntouched ==
    \A u \in Threads : ev'.t # u => Recovery(u)' = Recovery(u)

(* C17: a throw or fault of a thread resumes a call_protected of that      *)
(* thread, one that was live on it when the throw or fault was raised;     *)
(* with none live on it the process ends, whatever the other threads have  *)
(* live; and no step of a thread changes the recovery target, the pending  *)
(* payload, the last fault or the activations of another thread.           *)
C17_ThreadsIsolated ==
    /\ [](ev.op \in {"throw", "signal"} =>
            /\ ev.scope # 0 =>
                  /\ \E i \in DOMAIN ev.pre.stack : ev.pre.stack[i].id = ev.scope
                  /\ proc = "running" =>
                        /\ Top(ev.t).id = ev.scope
                        /\ Top(ev.t).pc = "resumed"
                        /\ \A u \in Threads \ {ev.t} : \A i \in DOMAIN stack[u] :
                              stack[u][i].id # ev.scope
            /\ ev.scope = 0 =>
                  /\ proc \in Terminated
                  /\ ev.res \in {"-", "unwind"} => proc = "aborted"
                  /\ stack[ev.t] = ev.pre.stack)
    /\ [][OthersUntouched]_vars

(* A throw of a thread with no scope has aborted the process while the     *)
(* other thread was inside a body.                                         *)
C17_Witness ==
    /\ ev.op = "throw"
    /\ ev.scope = 0
    /\ proc = "aborted"
    /\ \E u \in Threads \ {ev.t} : InBody(u) /\ SETJMP_BUFFER[u] # 0

(* The activations live on thread t *)
Live(t) == { stack[t][i].id : i \in DOMAIN stack[t] }

(* Every activation is one invocation: identities are not shared, and a    *)
(* new invocation takes one never used before.  A buffer that is not       *)
(* all-zero names a live activation, so no jump lands in one that returned.*)
InvocationsDistinct ==
    /\ \A t \in Threads : \A i, j \in DOMAIN stack[t] :
          stack[t][i].id = stack[t][j].id => i = j
    /\ \A t, u \in Threads : t # u => Live(t) \cap Live(u) = {}
    /\ \A t \in Threads : \A id \in Live(t) : id < nextId
    /\ \A t \in Threads :
          (proc = "running" /\ SETJMP_BUFFER[t] # 0) => SETJMP_BUFFER[t] \in Live(t)

(* An activation leaves the stack only by the step in which it returns its *)
(* one result, and it is the one on top.                                   *)
LeavesByReturning ==
    \A t \in Threads : \A id \in Live(t) \ Live(t)' :
        /\ ev'.op \in {"return", "resume"}
        /\ ev'.t = t
        /\ ev'.scope = id
        /\ id = Top(t).id
        /\ Live(t)' = Live(t) \ {id}
        /\ nextId' = nextId

(* What each return of call_protected is: Ok of a body that completed, or  *)
(* Err of a body that the causes in kinds ended early.                     *)
ResultMatchesExit(kinds) ==
    /\ ev.op = "return" =>
          /\ ev.res = "Ok"
          /\ PreTop.pc = "body"
          /\ PreTop.cause = NoCause
    /\ ev.op = "resume" =>
          /\ ev.res \in {"Trap", "Error"}
          /\ PreTop.pc = "resumed"
          /\ PreTop.cause.kind \in kinds
    /\ \A t \in Threads : \A i \in DOMAIN stack[t] :
          /\ stack[t][i].pc = "resumed" <=> stack[t][i].cause # NoCause
          /\ stack[t][i].pc = "resumed" => stack[t][i].cause.kind \in kinds

Snapshot == Some(get_fault_info(OsContext(ev.ip)))

(* The last step was an unwind of a fault under a live call_protected *)
Unwound == ev.op = "signal" /\ ev.res = "unwind" /\ ev.scope # 0

(* C19: CAUGHT_FAULTS of a thread is empty or the snapshot of the fault    *)
(* unwound last on the thread: an unwind under a live scope stores that    *)
(* fault's snapshot over whatever was there, a scope resumed by a fault    *)
(* finds the snapshot of that fault, and no other step changes it: no      *)
(* throw, no return, no breakpoint, no abort.                              *)
C19_LastFaultIsMostRecent ==
    /\ Unwound =>
          /\ CAUGHT_FAULTS[ev.t] = Snapshot
          /\ CAUGHT_FAULTS[ev.t].v.ip = ev.ip
          /\ CAUGHT_FAULTS[ev.t].v.faulting_addr = OsContext(ev.ip).si_addr
    /\ (ev.op # "init" /\ ~Unwound) => CAUGHT_FAULTS[ev.t] = ev.pre.caught
    /\ \A t \in Threads :
          /\ \A i \in DOMAIN stack[t] :
                (stack[t][i].pc = "resumed" /\ stack[t][i].cause.kind = "fault") =>
                    CAUGHT_FAULTS[t] = Some(get_fault_info(OsContext(stack[t][i].cause.ip)))
          /\ (CAUGHT_FAULTS[t] = None /\ stack[t] # <<>>) =>
                Top(t).cause.kind # "fault"

(* A second fault, at another address, has replaced the snapshot of the    *)
(* first.                                                                  *)
C19_Witness ==
    /\ Unwound
    /\ ev.pre.caught.some
    /\ ev.pre.caught.v.ip # ev.ip
    /\ CAUGHT_FAULTS[ev.t].v.ip = ev.ip

(* All five handlers are installed and the latch is complete *)
AllInstalled ==
    /\ SIGHANDLER_INIT.state = "complete"
    /\ \A s \in Signals : handlers[s].fn = "signal_trap_handler"

(* A caller of call_once does not leave it while the closure runs in       *)
(* another thread.                                                         *)
LoserWaits ==
    \A t \in Threads :
        (/\ stack[t] # <<>>
         /\ Top(t).pc = "once"
         /\ SIGHANDLER_INIT.state = "running") => stack'[t] = stack[t]

(* C20: on no thread does call_protected reach setjmp or its body before   *)
(* signal_trap_handler is installed for all five signals; a thread that    *)
(* finds the installation running in another thread stays in call_once     *)
(* until it is complete.                                                   *)
C20_InstalledBeforeBody ==
    /\ [](\A t \in Threads : \A i \in DOMAIN stack[t] :
              stack[t][i].pc \in {"setjmp", "body", "resumed"} => AllInstalled)
    /\ [](ev.op = "setjmp" => AllInstalled)
    /\ [](\A t \in Threads : \A i \in DOMAIN stack[t] :
              stack[t][i].pc = "install" =>
                  /\ SIGHANDLER_INIT = [state |-> "running", owner |-> t]
                  /\ i = Len(stack[t]))
    /\ [][LoserWaits]_vars

(* Both threads are in the body of their first call_protected; one of them *)
(* ran the installation, the other passed the latch without running it.    *)
C20_Witness ==
    /\ \A t \in Threads : Len(stack[t]) = 1 /\ InBody(t)
    /\ \E t, u \in Threads : stack[t][1].n = Len(SigOrder) /\ stack[u][1].n = 0
    /\ AllInstalled

(* The last step was one of the three operations that jump, made with the  *)
(* all-zero buffer.                                                        *)
JumpWithoutScope ==
    /\ \/ ev.op \in {"throw", "trigger_trap"}
       \/ ev.op = "signal" /\ ev.res \in {"unwind", "throw"}
    /\ ev.pre.buf = 0

(* C21: throw, do_unwind and trigger_trap, called while SETJMP_BUFFER of   *)
(* the thread is all-zero, abort the process and make no jump.             *)
C21_NoJumpWithoutScope ==
    JumpWithoutScope =>
        /\ proc = "aborted"
        /\ Locals(ev.t) = ev.pre

(* What setjmp returned in the activations resumed on thread t *)
Resumed(t) == { i \in DOMAIN stack[t] : stack[t][i].pc = "resumed" }

(* C22: the value setjmp returns in a resumed call_protected is never 0;   *)
(* it is 0xffff exactly for a throw, the number of the signal for a fault, *)
(* 1 for trigger_trap, and neither a signal number nor 1 is 0xffff.        *)
C22_ResumptionCodes ==
    /\ \A s \in Signals : SigNum(s) # ThrowCode /\ SigNum(s) # 0
    /\ ThrowCode # 1
    /\ ThrowCode <= 2147483647
    /\ \A t \in Threads : \A i \in Resumed(t) :
          LET f == stack[t][i] IN
            /\ f.signum # 0
            /\ f.cause.kind = "throw" <=> f.signum = ThrowCode
            /\ f.cause.kind = "fault" => f.signum = SigNum(f.cause.sig)
            /\ f.cause.kind = "trap" => f.signum = 1
    /\ \A t \in Threads : \A i \in DOMAIN stack[t] :
          stack[t][i].pc # "resumed" => stack[t][i].signum = 0

(* A scope has been resumed by a throw, with 0xffff, on a thread on which  *)
(* a fault had been unwound before.                                        *)
C22_Witness ==
    /\ ev.op = "throw"
    /\ proc = "running"
    /\ Top(ev.t).pc = "resumed"
    /\ Top(ev.t).signum = 65535
    /\ CAUGHT_FAULTS[ev.t].some

(* The handler of the last step ran a breakpoint callback *)
CallbackRan == ev.op = "signal" /\ ev.res \in {"return", "throw"}

(* C23: a callback runs only for a SIGTRAP whose instruction pointer is in *)
(* a registered table; every other signal the handler takes, and a SIGTRAP *)
(* at an address no table holds, runs none and takes the path of lines     *)
(* 80-106: the report, then do_unwind, which resumes the scope or aborts.  *)
C23_CallbacksOnlyForMatchingTrap ==
    /\ CallbackRan =>
          /\ ev.sig = "SIGTRAP"
          /\ TablesWith(ev.pre.bkpt, ev.ip) # {}
    /\ (/\ ev.op = "signal"
        /\ ev.res # "default"
        /\ ev.sig # "SIGTRAP" \/ TablesWith(ev.pre.bkpt, ev.ip) = {}) =>
          /\ ev.res \in {"unwind", "no_msm", "no_code"}
          /\ ev.res = "unwind" =>
                /\ ev.out # <<>>
                /\ ev.scope = 0 => proc = "aborted"
                /\ ev.scope # 0 =>
                      /\ proc = "running"
                      /\ Top(ev.t).cause.kind = "fault"
                      /\ Top(ev.t).cause.sig = ev.sig

(* A SIGSEGV at an address the top table holds has been unwound as a fault *)
C23_Witness ==
    /\ ev.op = "signal"
    /\ ev.sig = "SIGSEGV"
    /\ ev.res = "unwind"
    /\ ev.pre.bkpt # <<>>
    /\ ev.ip \in DOMAIN ev.pre.bkpt[Len(ev.pre.bkpt)]
    /\ ev.scope # 0

(* C24: when the callback of a matched breakpoint returns, SETJMP_BUFFER,  *)
(* TRAP_EARLY_DATA and CAUGHT_FAULTS of the thread are what they were      *)
(* before the signal, and the handler has written nothing to stderr.       *)
C24_ReturningCallbackChangesNothing ==
    (ev.op = "signal" /\ ev.res = "return") =>
        /\ SETJMP_BUFFER[ev.t] = ev.pre.buf
        /\ TRAP_EARLY_DATA[ev.t] = ev.pre.early
        /\ CAUGHT_FAULTS[ev.t] = ev.pre.caught
        /\ ev.out = <<>>

(* A callback has returned on a thread with a live scope and an earlier    *)
(* fault in CAUGHT_FAULTS, raised at another address.                      *)
C24_Witness ==
    /\ ev.op = "signal"
    /\ ev.res = "return"
    /\ SETJMP_BUFFER[ev.t] # 0
    /\ CAUGHT_FAULTS[ev.t].some
    /\ CAUGHT_FAULTS[ev.t].v.ip # ev.ip

(* C25: a callback that calls the throw it was handed, with p, under a     *)
(* live call_protected resumes the innermost one with p in                 *)
(* TRAP_EARLY_DATA; that scope returns Error(p), puts the buffer it found  *)
(* back and leaves TRAP_EARLY_DATA empty, as for a throw made by the body. *)
C25_CallbackThrowIsAThrow ==
    /\ (ev.op = "signal" /\ ev.res = "throw" /\ ev.scope # 0) =>
          /\ proc = "running"
          /\ ev.val = ev.pre.bkpt[Len(ev.pre.bkpt)][ev.ip].payload
          /\ Top(ev.t).id = ev.scope
          /\ Top(ev.t).id = ev.pre.buf
          /\ Top(ev.t).pc = "resumed"
          /\ Top(ev.t).cause = Cause("throw", ev.t, ev.val, "-", 0)
          /\ Top(ev.t).signum = ThrowCode
          /\ TRAP_EARLY_DATA[ev.t] = Some(ev.val)
          /\ CAUGHT_FAULTS[ev.t] = ev.pre.caught
          /\ ev.out = <<>>
    /\ (ev.op = "resume" /\ PreTop.cause.kind = "throw") =>
          /\ ev.res = "Error"
          /\ ev.val = PreTop.cause.payload
          /\ SETJMP_BUFFER[ev.t] = PreTop.prev
          /\ SETJMP_BUFFER[ev.t] = PreTop.entry.buf
          /\ TRAP_EARLY_DATA[ev.t] = None

(* A nested scope has returned the payload 103, which only a callback      *)
(* throws, and the outer target is back.                                   *)
C25_Witness ==
    /\ ev.op = "resume"
    /\ ev.res = "Error"
    /\ ev.val = 103
    /\ SETJMP_BUFFER[ev.t] # 0
    /\ InBody(ev.t)

(* The positions of the register array that belong to a GPR *)
GPRPositions == { GPRIndex[g] : g \in GPRNames }

(* The decoder's step changes nothing of the program's state *)
DecodeIsPure ==
    ev'.op = "decode" =>
        /\ UNCHANGED <<proc, SIGHANDLER_INIT, handlers, installs, nextId, stack,
                       SETJMP_BUFFER, TRAP_EARLY_DATA, CAUGHT_FAULTS, BKPT_MAP>>
        /\ ev'.ctx = ev.ctx

(* C26: get_fault_info changes no state and returns an array of 24         *)
(* entries: the entry of each of the sixteen GPRs is Some of the value the *)
(* OS context holds for it, also when that value is 0, and each of the     *)
(* eight other entries is None, which is not Some(0).                      *)
C26_DecoderFillsSixteen ==
    /\ [](ev.op = "decode" =>
            LET known == ev.fault.v.known_registers IN
              /\ DOMAIN known = 0..23
              /\ Cardinality(DOMAIN known) = NumRegisters
              /\ Cardinality(GPRPositions) = 16
              /\ \A g \in GPRNames :
                    /\ known[GPRIndex[g]].some
                    /\ known[GPRIndex[g]].v = ev.ctx.ss[g]
              /\ \A i \in DOMAIN known \ GPRPositions :
                    /\ ~known[i].some
                    /\ known[i] # Some(0)
              /\ Cardinality({ i \in DOMAIN known : known[i].some }) = 16
              /\ ev.fault.v.faulting_addr = ev.ctx.si_addr
              /\ ev.fault.v.ip = ev.ctx.rip)
    /\ [][DecodeIsPure]_vars

(* A context whose RSP is 0 has been decoded: the entry is Some(0) *)
C26_Witness ==
    /\ ev.op = "decode"
    /\ ev.ctx.ss.RSP = 0
    /\ ev.fault.v.known_registers[GPRIndex.RSP] = Some(0)
    /\ ev.fault.v.known_registers[23] = None

(* The steps of execute for the serialized format, in the order of the     *)
(* code                                                                    *)
StepOrder == << "write_object", "write_c", "cc", "link", "message" >>

(* The steps taken are the first steps of the order, each taken once *)
InOrder ==
    /\ Len(ev.log) <= Len(StepOrder)
    /\ \A i \in 1..Len(ev.log) : ev.log[i] = StepOrder[i]

Pos(step) == CHOOSE j \in 1..Len(StepOrder) : StepOrder[j] = step

(* A step has failed: nothing after it was started, and execute is over *)
StoppedAtFailure ==
    ev.failed # "-" =>
        /\ ev.pc = "done"
        /\ \A i \in 1..Len(ev.log) : Pos(ev.log[i]) <= Pos(ev.failed)
        /\ (ev.failed = "cc" => \A i \in 1..Len(ev.log) : ev.log[i] # "link")

(* The message is printed only once the linker has run and succeeded *)
MessageAfterLink ==
    (\E i \in 1..Len(ev.log) : ev.log[i] = "message") =>
        /\ Len(ev.log) = 5
        /\ ev.log[4] = "link"
        /\ ev.world.linker = "success"
        /\ "output" \in ev.files
        /\ ev.result = "Ok"

(* Once execute is over nothing more is started *)
NothingAfterTheEnd == ev.pc = "done" => ev' = ev

(* C27: in execute for the serialized format the steps are taken in the    *)
(* order write the module object, write the C source, compile it, link;    *)
(* when a step fails no later step is started (no linker after a failed C  *)
(* compile) and execute returns an Err; the success message is printed     *)
(* only after the linker has succeeded.                                    *)
C27_StepsInOrderOrErr ==
    /\ [](/\ InOrder
          /\ StoppedAtFailure
          /\ MessageAfterLink
          /\ (ev.failed # "-" => ev.result = "Err")
          /\ (ev.pc = "done" => ev.result \in {"Ok", "Err"}))
    /\ [][NothingAfterTheEnd]_vars

====
